---- MODULE Spec2Model ----
(***************************************************************************)
(* nbstripout: the stripping engine of src/nbstripout/_utils.py and the    *)
(* command-line driver of src/nbstripout/_nbstripout.py.                   *)
(*                                                                         *)
(* A notebook is a tree of JSON values.  Every value is a record tagged by *)
(* its Python type: t is one of "null", "bool", "int", "str", "list",      *)
(* "dict", and v is the payload.  A dict's payload is a function from its  *)
(* keys (strings) to values, a list's payload is a sequence of values.     *)
(***************************************************************************)
EXTENDS Integers, Sequences, FiniteSets, TLC

VARIABLES
    nb,          \* the document object handed to strip_output / strip_zeppelin_output
    args,        \* the StripArgs of the invocation
    pc,          \* where the caller stands: "ready", "returned", "raised", ...
    nb_in,       \* the document as it was when the current call began
    first,       \* the document the first call returned (NoDoc before that)
    calls,       \* number of calls of the stripper made so far
    keep_output, \* strip_output's local keep_output when it ended
    stderr,      \* lines written to sys.stderr
    call,        \* the arguments of a helper called on its own
    ret,         \* what that helper returned, and the mapping it left behind
    argv,        \* the parsed command line of main, with what git config answers
    disk,        \* the content of each file main may open
    stdin,       \* the content of sys.stdin
    stdout,      \* what was written to sys.stdout, in order
    stdout_closed, \* whether the buffer of sys.stdout has been closed
    git_extrakeys, \* what git config filter.nbstripout.extrakeys prints (None: it fails)
    exit,        \* how main ended: "0", "1" or the name of the exception that came out
    file_index   \* the position of main's loop in args.files

stripper_vars == <<nb, nb_in, first, calls, keep_output>>
helper_vars == <<call, ret>>
main_vars == <<argv, disk, stdin, stdout, stdout_closed, git_extrakeys, exit, file_index>>

vars == <<args, pc, stderr, stripper_vars, helper_vars, main_vars>>

-----------------------------------------------------------------------------
(* JSON / Python values *)

None == [t |-> "null"]
B(b) == [t |-> "bool", v |-> b]
I(n) == [t |-> "int", v |-> n]
S(s) == [t |-> "str", v |-> s]
L(q) == [t |-> "list", v |-> q]
D(f) == [t |-> "dict", v |-> f]

EmptyMap == [k \in {} |-> None]
EmptyDict == D(EmptyMap)
EmptyList == L(<<>>)

\* one-entry mapping, and mapping union
Entry(k, x) == k :> x

isinstance(x, type) == x.t = type

\* `key in d` for a dict d
HasKey(d, k) == k \in DOMAIN d.v

\* d[k]
Item(d, k) == d.v[k]

\* d.get(k, default)
Get(d, k, default) == IF HasKey(d, k) THEN d.v[k] ELSE default

\* the dict d after `del d[k]`
DelKey(d, k) == D([x \in DOMAIN d.v \ {k} |-> d.v[x]])

\* the dict d after `d[k] = x`
SetKey(d, k, x) == D([y \in DOMAIN d.v \cup {k} |-> IF y = k THEN x ELSE d.v[y]])

\* `x in lst` for a list lst
InList(x, lst) == \E i \in 1..Len(lst.v) : lst.v[i] = x

\* Python truth value bool(x)
bool(x) ==
    CASE x.t = "null" -> FALSE
      [] x.t = "bool" -> x.v
      [] x.t = "int"  -> x.v # 0
      [] x.t = "str"  -> x.v # ""
      [] x.t = "list" -> x.v # <<>>
      [] x.t = "dict" -> DOMAIN x.v # {}

\* number of decimal digits of n >= 0
RECURSIVE Digits(_)
Digits(n) == IF n < 10 THEN 1 ELSE 1 + Digits(n \div 10)

\* len(str(x)) for a value that is neither str, list nor dict
StrLen(x) ==
    CASE x.t = "null" -> 4                                \* "None"
      [] x.t = "bool" -> IF x.v THEN 4 ELSE 5             \* "True" / "False"
      [] x.t = "int"  -> IF x.v < 0 THEN 1 + Digits(-x.v) ELSE Digits(x.v)

-----------------------------------------------------------------------------
(* Python strings are TLA+ strings; s[i] is SubSeq(s, i, i).                *)

Char(s, i) == SubSeq(s, i, i)

\* '.' in key
HasDot(key) == \E i \in 1..Len(key) : Char(key, i) = "."

\* index of the first '.' of a key that has one
FirstDot(key) ==
    CHOOSE i \in 1..Len(key) : Char(key, i) = "." /\ \A j \in 1..(i - 1) : Char(key, j) # "."

\* key.split('.', maxsplit=1) for a key that has a dot: <<head, tail>>
SplitFirst(key) ==
    LET i == FirstDot(key)
    IN  <<SubSeq(key, 1, i - 1), SubSeq(key, i + 1, Len(key))>>

\* key.split('.')[0]
SplitHead(key) == IF HasDot(key) THEN SplitFirst(key)[1] ELSE key

Whitespace == {" ", "\t", "\n", "\r"}

\* line.strip()
RECURSIVE LStrip(_)
LStrip(s) == IF s # "" /\ Head(s) \in Whitespace THEN LStrip(Tail(s)) ELSE s

RECURSIVE RStrip(_)
RStrip(s) ==
    IF s # "" /\ Char(s, Len(s)) \in Whitespace THEN RStrip(SubSeq(s, 1, Len(s) - 1)) ELSE s

strip(s) == RStrip(LStrip(s))

-----------------------------------------------------------------------------
(* pop_recursive: returns the popped value (or default) as .ret and the     *)
(* mapping as the call leaves it as .d                                      *)

RECURSIVE pop_recursive(_, _, _)

\* a variant that walks into the head segment of a dotted key without first
\* looking for the whole key
pop_recursive_nested_first(d, key, default) ==
    IF ~isinstance(d, "dict") THEN [ret |-> default, d |-> d]
    ELSE IF ~HasDot(key)
         THEN IF HasKey(d, key) THEN [ret |-> Item(d, key), d |-> DelKey(d, key)]
              ELSE [ret |-> default, d |-> d]
    ELSE IF HasKey(d, SplitFirst(key)[1])
         THEN [ret |-> pop_recursive(Item(d, SplitFirst(key)[1]), SplitFirst(key)[2], default).ret,
               d |-> SetKey(d, SplitFirst(key)[1],
                            pop_recursive(Item(d, SplitFirst(key)[1]), SplitFirst(key)[2],
                                          default).d)]
         ELSE [ret |-> default, d |-> d]

pop_recursive(d, key, default) ==
    IF ~isinstance(d, "dict") THEN [ret |-> default, d |-> d]
    ELSE IF HasKey(d, key) THEN [ret |-> Item(d, key), d |-> DelKey(d, key)]
    ELSE IF ~HasDot(key) THEN [ret |-> default, d |-> d]
    ELSE LET key_head == SplitFirst(key)[1]
             key_tail == SplitFirst(key)[2]
         IN  IF HasKey(d, key_head)
             THEN LET r == pop_recursive(Item(d, key_head), key_tail, default)
                  IN  [ret |-> r.ret, d |-> SetKey(d, key_head, r.d)]
             ELSE [ret |-> default, d |-> d]

-----------------------------------------------------------------------------
(* get_size *)

RECURSIVE SumSeq(_)
SumSeq(q) == IF q = <<>> THEN 0 ELSE Head(q) + SumSeq(Tail(q))

\* list(item.values()) in some order (the sum does not depend on it)
RECURSIVE Values(_)
Values(f) ==
    IF DOMAIN f = {} THEN <<>>
    ELSE LET k == CHOOSE x \in DOMAIN f : TRUE
         IN  <<f[k]>> \o Values([x \in DOMAIN f \ {k} |-> f[x]])

RECURSIVE get_size(_)
get_size(item) ==
    IF isinstance(item, "str") THEN Len(item.v)
    ELSE IF isinstance(item, "list")
         THEN SumSeq([i \in 1..Len(item.v) |-> get_size(item.v[i])])
    ELSE IF isinstance(item, "dict") THEN get_size(L(Values(item.v)))
    ELSE StrLen(item)

-----------------------------------------------------------------------------
(* determine_keep_output: .raised tells whether MetadataError was raised,   *)
(* .value is the returned Python value otherwise                            *)

Returns(x) == [raised |-> FALSE, value |-> x]
RaisesMetadataError == [raised |-> TRUE, value |-> None]

\* a variant whose init_cell rule forgets strip_init_cells
determine_keep_output_init_always(cell, default, strip_init_cells) ==
    IF ~HasKey(cell, "metadata") THEN Returns(default)
    ELSE IF HasKey(Item(cell, "metadata"), "init_cell")
         THEN Returns(B(bool(Item(Item(cell, "metadata"), "init_cell"))))
         ELSE IF /\ HasKey(Item(cell, "metadata"), "keep_output")
                 /\ InList(S("keep_output"), Get(Item(cell, "metadata"), "tags", EmptyList))
                 /\ ~bool(Item(Item(cell, "metadata"), "keep_output"))
              THEN RaisesMetadataError
              ELSE IF \/ HasKey(Item(cell, "metadata"), "keep_output")
                      \/ InList(S("keep_output"), Get(Item(cell, "metadata"), "tags", EmptyList))
                   THEN Returns(B(\/ bool(Get(Item(cell, "metadata"), "keep_output", B(FALSE)))
                                  \/ InList(S("keep_output"),
                                            Get(Item(cell, "metadata"), "tags", EmptyList))))
                   ELSE Returns(default)

\* a variant that looks for the contradiction before it looks at init_cell
determine_keep_output_contradiction_first(cell, default, strip_init_cells) ==
    IF ~HasKey(cell, "metadata") THEN Returns(default)
    ELSE IF /\ HasKey(Item(cell, "metadata"), "keep_output")
            /\ InList(S("keep_output"), Get(Item(cell, "metadata"), "tags", EmptyList))
            /\ ~bool(Item(Item(cell, "metadata"), "keep_output"))
         THEN RaisesMetadataError
         ELSE IF HasKey(Item(cell, "metadata"), "init_cell")
              THEN Returns(B(bool(Item(Item(cell, "metadata"), "init_cell")) /\ ~strip_init_cells))
              ELSE IF \/ HasKey(Item(cell, "metadata"), "keep_output")
                      \/ InList(S("keep_output"), Get(Item(cell, "metadata"), "tags", EmptyList))
                   THEN Returns(B(TRUE))
                   ELSE Returns(default)

determine_keep_output(cell, default, strip_init_cells) ==
    IF ~HasKey(cell, "metadata") THEN Returns(default)
    ELSE LET metadata == Item(cell, "metadata") IN
    IF HasKey(metadata, "init_cell")
    THEN Returns(B(bool(Item(metadata, "init_cell")) /\ ~strip_init_cells))
    ELSE LET has_keep_output_metadata == HasKey(metadata, "keep_output")
             keep_output_metadata == bool(Get(metadata, "keep_output", B(FALSE)))
             has_keep_output_tag == InList(S("keep_output"), Get(metadata, "tags", EmptyList))
         IN  IF has_keep_output_metadata /\ has_keep_output_tag /\ ~keep_output_metadata
             THEN RaisesMetadataError
             ELSE IF has_keep_output_metadata \/ has_keep_output_tag
                  THEN Returns(B(keep_output_metadata \/ has_keep_output_tag))
                  ELSE Returns(default)

-----------------------------------------------------------------------------
(* strip_output *)

\* lines 117-119: the keep_output every cell gets as its default
effective_keep_output(doc, a) ==
    IF a.keep_output = None /\ HasKey(Item(doc, "metadata"), "keep_output")
    THEN B(bool(Item(Item(doc, "metadata"), "keep_output")))
    ELSE a.keep_output

\* a variant that only takes a key without a dot for invalid
invalid_extra_key_dotless(key) == ~HasDot(key)

\* line 123: the test that sends an extra key to stderr
invalid_extra_key(key) == ~HasDot(key) \/ SplitHead(key) \notin {"cell", "metadata"}

\* lines 121-127: keys[namespace], the subkeys of the valid extra keys of a namespace, in order
RECURSIVE extra_subkeys(_, _)
extra_subkeys(extra_keys, namespace) ==
    IF extra_keys = <<>> THEN <<>>
    ELSE LET key == Head(extra_keys)
             rest == extra_subkeys(Tail(extra_keys), namespace)
         IN  IF ~invalid_extra_key(key) /\ SplitFirst(key)[1] = namespace
             THEN <<SplitFirst(key)[2]>> \o rest
             ELSE rest

\* line 124: what the loop writes to sys.stderr (the quotes around the key left out)
RECURSIVE extra_key_warnings(_)
extra_key_warnings(extra_keys) ==
    IF extra_keys = <<>> THEN <<>>
    ELSE (IF invalid_extra_key(Head(extra_keys))
          THEN <<"Ignoring invalid extra key " \o Head(extra_keys) \o "\n">>
          ELSE <<>>) \o extra_key_warnings(Tail(extra_keys))

\* for field in fields: pop_recursive(d, field)   (lines 129-130 and 165-166)
RECURSIVE pop_fields(_, _)
pop_fields(d, fields) ==
    IF fields = <<>> THEN d
    ELSE pop_fields(pop_recursive(d, Head(fields), None).d, Tail(fields))

\* a variant that takes any non-empty line for content
has_source_unstripped(c) ==
    LET source == Get(c, "source", EmptyList)
    IN  IF source.t = "str" THEN source.v # ""
        ELSE \E i \in 1..Len(source.v) : source.v[i].v # ""

\* line 135: any(line.strip() for line in c.get('source', []))
\* (iterating over a str yields its characters)
has_source(c) ==
    LET source == Get(c, "source", EmptyList)
    IN  IF source.t = "str"
        THEN \E i \in 1..Len(source.v) : strip(Char(source.v, i)) # ""
        ELSE \E i \in 1..Len(source.v) : strip(source.v[i].v) # ""

\* The lambdas of line 137 are called by _cells, after the loop of line 136 has
\* ended: the closure variable tag_to_drop then holds the loop's last value.
tag_to_drop(a) == a.drop_tagged_cells[Len(a.drop_tagged_cells)]

\* line 137: tag_to_drop not in c.get("metadata", {}).get("tags", [])
lacks_tag(c, tag) == ~InList(S(tag), Get(Get(c, "metadata", EmptyDict), "tags", EmptyList))

\* lines 132-137: the list of conditionals, one entry per appended lambda
conditionals(a) ==
    (IF a.drop_empty_cells THEN <<"has_source">> ELSE <<>>)
        \o [i \in 1..Len(a.drop_tagged_cells) |-> "lacks_tag_to_drop"]

\* conditional(c) for one entry of the list
conditional(cond, c, a) ==
    IF cond = "has_source" THEN has_source(c) ELSE lacks_tag(c, tag_to_drop(a))

\* lines 48-49 / 53-54: cells = list(filter(conditional, cells)) for each conditional in turn
RECURSIVE filter_cells(_, _, _)
filter_cells(cells, conds, a) ==
    IF conds = <<>> THEN cells
    ELSE filter_cells(SelectSeq(cells, LAMBDA c : conditional(Head(conds), c, a)), Tail(conds), a)

\* lines 151-154: output['execution_count'] = None on every output that has one
null_output_counts(outputs) ==
    L([i \in 1..Len(outputs.v) |->
        IF HasKey(outputs.v[i], "execution_count")
        THEN SetKey(outputs.v[i], "execution_count", None)
        ELSE outputs.v[i]])

\* a variant that keeps only the outputs strictly smaller than max_size
filter_outputs_strict(outputs, keep_output_this_cell, max_size) ==
    IF ~bool(keep_output_this_cell)
    THEN L(SelectSeq(outputs.v, LAMBDA output : get_size(output) < max_size))
    ELSE outputs

\* lines 146-148: the outputs a cell is left with
filter_outputs(outputs, keep_output_this_cell, max_size) ==
    IF ~bool(keep_output_this_cell)
    THEN L(SelectSeq(outputs.v, LAMBDA output : get_size(output) <= max_size))
    ELSE outputs

\* lines 150-154
strip_output_counts(outputs, a) == IF ~a.keep_count THEN null_output_counts(outputs) ELSE outputs

\* lines 143-154
strip_cell_outputs(cell, keep_output_this_cell, a) ==
    IF HasKey(cell, "outputs")
    THEN SetKey(cell, "outputs",
                strip_output_counts(
                    filter_outputs(Item(cell, "outputs"), keep_output_this_cell, a.max_size), a))
    ELSE cell

\* a variant that forgets the legacy counter
strip_prompt_number_forgotten(cell, a) == cell

\* lines 159-160
strip_prompt_number(cell, a) ==
    IF HasKey(cell, "prompt_number") /\ ~a.keep_count
    THEN SetKey(cell, "prompt_number", None) ELSE cell

\* a variant that sets the counter of a cell that has none
strip_execution_count_unguarded(cell, a) ==
    IF ~a.keep_count THEN SetKey(cell, "execution_count", None) ELSE cell

\* lines 161-162
strip_execution_count(cell, a) ==
    IF HasKey(cell, "execution_count") /\ ~a.keep_count
    THEN SetKey(cell, "execution_count", None) ELSE cell

\* lines 143-166: the body of the loop over the cells once determine_keep_output
\* has answered k; .raised when it raised, .cell the cell as the body leaves it
strip_cell_body(cell, k, a) ==
    IF k.raised THEN [raised |-> TRUE, cell |-> cell]
    ELSE [raised |-> FALSE,
          cell |-> pop_fields(
                       strip_execution_count(
                           strip_prompt_number(strip_cell_outputs(cell, k.value, a), a), a),
                       extra_subkeys(a.extra_keys, "cell"))]

\* lines 140-166
strip_cell(cell, keep, a) ==
    strip_cell_body(cell, determine_keep_output(cell, keep, a.strip_init_cells), a)

\* the loop of line 139 over an already filtered list of cells, from index i on;
\* it ends at the first cell that raises (r is what the body made of cell i)
RECURSIVE strip_cells(_, _, _, _)
strip_cells_next(cells, i, keep, a, r) ==
    IF r.raised THEN [raised |-> TRUE, cells |-> cells]
    ELSE strip_cells([cells EXCEPT ![i] = r.cell], i + 1, keep, a)

strip_cells(cells, i, keep, a) ==
    IF i > Len(cells) THEN [raised |-> FALSE, cells |-> cells]
    ELSE strip_cells_next(cells, i, keep, a, strip_cell(cells[i], keep, a))

\* lines 47-51: the worksheets from index k on; a worksheet is filtered when the
\* generator reaches it, so those after a raise are left as they were (r is what
\* the loop made of the cells of worksheet k)
RECURSIVE strip_worksheets(_, _, _, _)
strip_worksheets_next(worksheets, k, keep, a, r) ==
    IF r.raised
    THEN [raised |-> TRUE,
          worksheets |-> [worksheets EXCEPT ![k] = SetKey(@, "cells", L(r.cells))]]
    ELSE strip_worksheets([worksheets EXCEPT ![k] = SetKey(@, "cells", L(r.cells))],
                          k + 1, keep, a)

strip_worksheets(worksheets, k, keep, a) ==
    IF k > Len(worksheets) THEN [raised |-> FALSE, worksheets |-> worksheets]
    ELSE strip_worksheets_next(worksheets, k, keep, a,
             strip_cells(filter_cells(Item(worksheets[k], "cells").v, conditionals(a), a),
                         1, keep, a))

\* lines 44-56 and 139-166: the loop over _cells(nb, conditionals)
strip_all_cells(doc, keep, a) ==
    IF Item(doc, "nbformat").v < 4
    THEN [key |-> "worksheets",
          r |-> strip_worksheets(Item(doc, "worksheets").v, 1, keep, a)]
    ELSE [key |-> "cells",
          r |-> strip_cells(filter_cells(Item(doc, "cells").v, conditionals(a), a), 1, keep, a)]

\* lines 129-130
strip_metadata(doc, a) ==
    SetKey(doc, "metadata",
           pop_fields(Item(doc, "metadata"), extra_subkeys(a.extra_keys, "metadata")))

\* the document and the outcome once the loop has ended (res is strip_all_cells')
strip_output_result(doc, keep, a, res) ==
    [raised |-> res.r.raised,
     nb |-> SetKey(doc, res.key, L(res.r[res.key])),
     keep_output |-> keep,
     stderr |-> extra_key_warnings(a.extra_keys)]

\* the call once keep_output is resolved
strip_output_with(doc, keep, a) ==
    strip_output_result(strip_metadata(doc, a), keep, a,
                        strip_all_cells(strip_metadata(doc, a), keep, a))

\* a variant that resolves keep_output after the metadata.* extra keys are removed
strip_output_resolving_late(doc, a) ==
    strip_output_with(doc, effective_keep_output(strip_metadata(doc, a), a), a)

\* strip_output(nb, args): .raised when MetadataError came out of it, .nb the
\* document as the call leaves it, .stderr what it wrote, .keep_output its local
strip_output(doc, a) == strip_output_with(doc, effective_keep_output(doc, a), a)

\* a variant that gives every paragraph an empty results field
strip_zeppelin_output_unguarded(doc) ==
    SetKey(doc, "paragraphs",
           L([i \in 1..Len(Item(doc, "paragraphs").v) |->
                SetKey(Item(doc, "paragraphs").v[i], "results", EmptyDict)]))

\* strip_zeppelin_output(nb)
strip_zeppelin_output(doc) ==
    LET paragraphs == Item(doc, "paragraphs")
    IN  SetKey(doc, "paragraphs",
               L([i \in 1..Len(paragraphs.v) |->
                    IF HasKey(paragraphs.v[i], "results")
                    THEN SetKey(paragraphs.v[i], "results", EmptyDict)
                    ELSE paragraphs.v[i]]))

-----------------------------------------------------------------------------
(* The documents and configurations the stripper is run on *)

MaxSize == 2       \* max_size ranges over 0..MaxSize
MaxCells == 3      \* cells of a document of the filtering family
MaxCalls == 2      \* the stripper is applied again to its own result up to this often

NoDoc == None
NoCall == [fn |-> "none"]
NoRet == [fn |-> "none"]
NoArgs == [fn |-> "none"]

\* the variables of main, at rest
MainAtRest ==
    /\ argv = NoArgs
    /\ disk = <<>>
    /\ stdin = None
    /\ stdout = <<>>
    /\ stdout_closed = FALSE
    /\ git_extrakeys = None
    /\ exit = "none"
    /\ file_index = 0

\* an optional entry of a mapping: Absent stands for no entry
Absent == [t |-> "absent"]
Optional(k, x) == IF x = Absent THEN EmptyMap ELSE Entry(k, x)

\* outputs: sizes 0, 1, 2 (5 once its counter is None), 3 and 10
OutEmpty == EmptyDict
OutOne == D([text |-> S("a")])
OutExec == D([execution_count |-> I(3), data |-> D(Entry("text/plain", S("2")))])
OutText == D([text |-> L(<<S("ab"), S("c")>>)])
OutBig ==
    D([execution_count |-> None, metadata |-> D([isolated |-> B(TRUE)]), data |-> L(<<I(10)>>)])

\* the part of a cell that is not its metadata
CellBodies ==
    { [cell_type |-> S("markdown"), source |-> L(<<S("x")>>)],
      [source |-> L(<<S("   \n"), S("")>>), outputs |-> EmptyList, execution_count |-> None],
      [source |-> L(<<S("1+1")>>), outputs |-> L(<<OutExec>>), execution_count |-> I(3)],
      [source |-> L(<<S(" y\n")>>), outputs |-> L(<<OutText, OutEmpty, OutExec, OutOne>>),
       prompt_number |-> I(7)],
      [outputs |-> L(<<OutOne, OutBig>>), execution_count |-> I(12)] }

TagLists ==
    { Absent, EmptyList, L(<<S("keep_output")>>), L(<<S("a")>>),
      L(<<S("a"), S("keep_output")>>) }

\* every cell metadata over init_cell, keep_output and tags
CellMetadatas ==
    { D(Optional("init_cell", i) @@ Optional("keep_output", k) @@ Optional("tags", t)) :
        i \in {Absent, B(TRUE), B(FALSE)},
        k \in {Absent, B(TRUE), B(FALSE), None},
        t \in TagLists }

\* the cell metadata the documents of the output family carry
CoreMetadatas ==
    { Absent,
      EmptyDict,
      D([collapsed |-> B(TRUE)]),
      D([keep_output |-> B(TRUE)]),
      D([keep_output |-> B(FALSE)]),
      D([tags |-> L(<<S("keep_output")>>)]),
      D([keep_output |-> B(TRUE), tags |-> L(<<S("keep_output")>>)]),
      D([keep_output |-> B(FALSE), tags |-> L(<<S("keep_output")>>)]),
      D([keep_output |-> None, tags |-> L(<<S("b"), S("keep_output")>>)]),
      D([init_cell |-> B(TRUE)]),
      D([init_cell |-> B(FALSE), keep_output |-> B(TRUE)]),
      D([init_cell |-> B(TRUE), keep_output |-> B(FALSE), tags |-> L(<<S("keep_output")>>)]) }

Cell(body, metadata) == D(body @@ Optional("metadata", metadata))

CoreCells == { Cell(b, m) : b \in CellBodies, m \in CoreMetadatas }

\* the cells of the filtering family, each with its own id
FilterCells ==
    { D([id |-> S("c1"), source |-> L(<<S("x")>>), outputs |-> L(<<OutOne>>)]),
      D([id |-> S("c2"), source |-> L(<<S("   \n"), S("")>>), metadata |-> EmptyDict]),
      D([id |-> S("c3"), source |-> L(<<S("x")>>),
         metadata |-> D([tags |-> L(<<S("a")>>)]), execution_count |-> I(1)]),
      D([id |-> S("c4"), source |-> L(<<S("\ty ")>>),
         metadata |-> D([tags |-> L(<<S("b")>>)]), outputs |-> L(<<OutExec>>)]),
      D([id |-> S("c5"),
         metadata |-> D([keep_output |-> B(FALSE), tags |-> L(<<S("keep_output"), S("a")>>)])]),
      D([id |-> S("c6"), source |-> S(" \n\t")]) }

\* the lists of at most n elements of a set
RECURSIVE ListsUpTo(_, _)
ListsUpTo(set, n) ==
    IF n = 0 THEN {<<>>}
    ELSE LET shorter == ListsUpTo(set, n - 1)
         IN  shorter \cup { <<x>> \o q : x \in set, q \in { r \in shorter : Len(r) = n - 1 } }

NbMetadatas ==
    { EmptyDict, D([keep_output |-> B(TRUE)]), D([keep_output |-> B(FALSE), kernelspec |-> EmptyDict]) }

\* nbformat 4: the cells hang off the notebook
Notebook4(metadata, cells) ==
    D([nbformat |-> I(4), metadata |-> metadata, cells |-> L(cells)])

\* nbformat 3: the cells hang off the worksheets
Worksheet(cells) == D([cells |-> L(cells)])
Notebook3(metadata, worksheets) ==
    D([nbformat |-> I(3), metadata |-> metadata, worksheets |-> L(worksheets)])

StripArgs(keep, keep_count, extra_keys, drop_empty_cells, drop_tagged_cells, strip_init_cells, max_size) ==
    [keep_output |-> keep, keep_count |-> keep_count, extra_keys |-> extra_keys,
     drop_empty_cells |-> drop_empty_cells, drop_tagged_cells |-> drop_tagged_cells,
     strip_init_cells |-> strip_init_cells, max_size |-> max_size]

TriState == {None, B(TRUE), B(FALSE)}

TagArgs == { <<>>, <<"a">>, <<"b">>, <<"a", "b">>, <<"b", "a">> }

ExtraKeyArgs ==
    { <<>>,
      <<"metadata.keep_output">>,
      <<"cell.metadata.collapsed", "metadata.kernelspec">>,
      <<"cell.metadata.keep_output">>,
      <<"cell.metadata">>,
      <<"cell.outputs">>,
      <<"keep_output", "cell.execution_count">>,
      <<"metadata.keep_output", "nb.metadata", "cell.metadata.tags">> }

\* one cell, every way of keeping or stripping its outputs and counters
InitOutputs ==
    /\ nb \in { Notebook4(m, <<c>>) : m \in NbMetadatas, c \in CoreCells }
    /\ args \in { StripArgs(k, kc, <<>>, FALSE, <<>>, si, n) :
                    k \in TriState, kc \in BOOLEAN, si \in BOOLEAN, n \in 0..MaxSize }

\* several cells, in a notebook or in two worksheets, every way of dropping cells
InitFilter ==
    /\ nb \in { Notebook4(EmptyDict, q) : q \in ListsUpTo(FilterCells, MaxCells) }
            \cup { Notebook3(EmptyDict, <<Worksheet(q1), Worksheet(q2)>>) :
                     q1 \in ListsUpTo(FilterCells, MaxCells - 1),
                     q2 \in ListsUpTo(FilterCells, 1) }
    /\ args \in { StripArgs(k, FALSE, <<>>, de, dt, FALSE, 0) :
                    k \in {None, B(TRUE)}, de \in BOOLEAN, dt \in TagArgs }

\* one cell, every list of extra keys
InitExtraKeys ==
    /\ nb \in { Notebook4(m, <<c>>) :
                  m \in NbMetadatas,
                  c \in { Cell(b, m2) : b \in CellBodies,
                            m2 \in { D([collapsed |-> B(TRUE), keep_output |-> B(TRUE)]),
                                     D([keep_output |-> B(FALSE),
                                        tags |-> L(<<S("keep_output")>>),
                                        init_cell |-> B(TRUE)]) } } }
    /\ args \in { StripArgs(k, kc, ek, FALSE, <<>>, FALSE, n) :
                    k \in TriState, kc \in BOOLEAN, ek \in ExtraKeyArgs, n \in {0, MaxSize} }

Init ==
    /\ InitOutputs \/ InitFilter \/ InitExtraKeys
    /\ pc = "ready"
    /\ nb_in = NoDoc
    /\ first = NoDoc
    /\ calls = 0
    /\ keep_output = None
    /\ stderr = <<>>
    /\ call = NoCall
    /\ ret = NoRet
    /\ MainAtRest

\* nb = strip_output(nb, args), as the caller sees it
Strip ==
    /\ pc = "ready"
    /\ \E r \in {strip_output(nb, args)} :
           /\ nb' = r.nb
           /\ pc' = IF r.raised THEN "raised" ELSE "returned"
           /\ keep_output' = r.keep_output
           /\ stderr' = stderr \o r.stderr
           /\ first' = IF calls = 0 /\ ~r.raised THEN r.nb ELSE first
    /\ nb_in' = nb
    /\ calls' = calls + 1
    /\ UNCHANGED <<args, helper_vars, main_vars>>

\* the caller hands the returned document to strip_output once more
Again ==
    /\ pc = "returned"
    /\ calls < MaxCalls
    /\ pc' = "ready"
    /\ UNCHANGED <<args, stderr, stripper_vars, helper_vars, main_vars>>

Next == Strip \/ Again

Spec == Init /\ [][Next]_vars

-----------------------------------------------------------------------------
(* The helpers called on their own *)

\* the variables of the other specifications, at rest
StripperAtRest ==
    /\ nb = NoDoc
    /\ args = NoArgs
    /\ nb_in = NoDoc
    /\ first = NoDoc
    /\ calls = 0
    /\ keep_output = None
    /\ stderr = <<>>
    /\ MainAtRest

Leaves == {I(1), I(2)}

\* the mappings with an optional entry c
PopInner2 == { D(Optional("c", c)) : c \in {Absent} \cup Leaves }

\* the mappings with optional entries b and b.c
PopInner1 ==
    { D(Optional("b", b) @@ Optional("b.c", bc)) :
        b \in {Absent} \cup Leaves \cup PopInner2, bc \in {Absent} \cup Leaves }

\* the mappings with optional entries a, a.b and a.b.c
PopDicts ==
    { D(Optional("a", x) @@ Optional("a.b", ab) @@ Optional("a.b.c", abc)) :
        x \in {Absent} \cup Leaves \cup PopInner1,
        ab \in {Absent} \cup Leaves \cup PopInner2,
        abc \in {Absent} \cup Leaves }

PopKeys == {"a", "a.b", "a.b.c", "b", "a.c", "b.c", "", "a.", ".a", "a..b"}

InitPop ==
    /\ StripperAtRest
    /\ pc = "helper"
    /\ call \in { [fn |-> "pop_recursive", d |-> d, key |-> k, default |-> x] :
                    d \in PopDicts \cup {I(1), EmptyList}, k \in PopKeys, x \in {None, I(0)} }
    /\ ret = NoRet

\* pop_recursive(d, key, default)
Pop ==
    /\ call.fn = "pop_recursive"
    /\ ret = NoRet
    /\ \E r \in {pop_recursive(call.d, call.key, call.default)} :
           ret' = [fn |-> "pop_recursive", ret |-> r.ret, d |-> r.d]
    /\ UNCHANGED <<args, pc, stderr, stripper_vars, call, main_vars>>

NextPop == Pop

SpecPop == InitPop /\ [][NextPop]_vars

KeepCells ==
    { D([source |-> L(<<S("x")>>), outputs |-> L(<<OutOne>>)]) }
        \cup { Cell([source |-> L(<<S("x")>>), outputs |-> L(<<OutOne>>)], m) :
                 m \in CellMetadatas }

InitKeep ==
    /\ StripperAtRest
    /\ pc = "helper"
    /\ call \in { [fn |-> "determine_keep_output", cell |-> c, default |-> x,
                   strip_init_cells |-> si] :
                    c \in KeepCells, x \in TriState, si \in BOOLEAN }
    /\ ret = NoRet

\* determine_keep_output(cell, default, strip_init_cells)
Determine ==
    /\ call.fn = "determine_keep_output"
    /\ ret = NoRet
    /\ \E r \in {determine_keep_output(call.cell, call.default, call.strip_init_cells)} :
           ret' = [fn |-> "determine_keep_output", raised |-> r.raised, value |-> r.value]
    /\ UNCHANGED <<args, pc, stderr, stripper_vars, call, main_vars>>

NextKeep == Determine

SpecKeep == InitKeep /\ [][NextKeep]_vars

\* strip_zeppelin_output on its own
MaxParagraphs == 3  \* paragraphs of a Zeppelin note

Paragraphs ==
    { EmptyDict,
      D([text |-> S("%md p")]),
      D([text |-> S("1+1"), results |-> D([code |-> S("SUCCESS"), msg |-> L(<<S("2")>>)])]),
      D([results |-> EmptyDict]),
      D([results |-> None, title |-> S("t"), config |-> D([results |-> S("kept")])]),
      D([id |-> S("p5"), results |-> L(<<I(1)>>)]) }

ZeppelinNotes ==
    { D(Optional("name", n) @@ Entry("paragraphs", L(q))) :
        n \in {Absent, S("note")}, q \in ListsUpTo(Paragraphs, MaxParagraphs) }

InitZeppelin ==
    /\ StripperAtRest
    /\ pc = "helper"
    /\ call \in { [fn |-> "strip_zeppelin_output", nb |-> doc] :
                    doc \in ZeppelinNotes \cup {EmptyDict, D([name |-> S("note")])} }
    /\ ret = NoRet

\* nb = strip_zeppelin_output(nb): .ret is what it returned and .nb its argument as
\* the call left it; nb['paragraphs'] of a note without paragraphs is a KeyError
Zeppelin ==
    /\ call.fn = "strip_zeppelin_output"
    /\ ret = NoRet
    /\ IF HasKey(call.nb, "paragraphs")
       THEN \E r \in {strip_zeppelin_output(call.nb)} :
                ret' = [fn |-> "strip_zeppelin_output", raised |-> "none", ret |-> r, nb |-> r]
       ELSE ret' = [fn |-> "strip_zeppelin_output", raised |-> "KeyError", ret |-> None,
                    nb |-> call.nb]
    /\ UNCHANGED <<args, pc, stderr, stripper_vars, call, main_vars>>

NextZeppelin == Zeppelin

SpecZeppelin == InitZeppelin /\ [][NextZeppelin]_vars

-----------------------------------------------------------------------------
(* The command-line driver: main, process_file and process_stream of        *)
(* _nbstripout.py.  A file or stream holds Text (no JSON) or Json(doc), the *)
(* serialisation of the document doc; Missing is a path with no file.       *)

Missing == [kind |-> "missing"]
Text == [kind |-> "text"]
Json(doc) == [kind |-> "json", doc |-> doc]

\* s.endswith(suffix)
endswith(s, suffix) ==
    Len(s) >= Len(suffix) /\ SubSeq(s, Len(s) - Len(suffix) + 1, Len(s)) = suffix

\* length of the first word of a string that starts with one
WordLen(s) ==
    CHOOSE n \in 1..Len(s) :
        /\ \A j \in 1..n : Char(s, j) \notin Whitespace
        /\ n = Len(s) \/ Char(s, n + 1) \in Whitespace

\* s.split(): the words between runs of whitespace
RECURSIVE split(_)
split(s) ==
    IF LStrip(s) = "" THEN <<>>
    ELSE <<SubSeq(LStrip(s), 1, WordLen(LStrip(s)))>>
             \o split(SubSeq(LStrip(s), WordLen(LStrip(s)) + 1, Len(LStrip(s))))

Lowercase == "abcdefghijklmnopqrstuvwxyz"
Uppercase == "ABCDEFGHIJKLMNOPQRSTUVWXYZ"

\* s.upper()
RECURSIVE upper(_)
upper(s) ==
    IF s = "" THEN ""
    ELSE (IF \E i \in 1..Len(Lowercase) : Char(Lowercase, i) = Head(s)
          THEN Char(Uppercase, CHOOSE i \in 1..Len(Lowercase) : Char(Lowercase, i) = Head(s))
          ELSE SubSeq(s, 1, 1)) \o upper(Tail(s))

DecimalDigits == "0123456789"

\* c.isdigit(), for one character
isdigit(c) == \E i \in 1..Len(DecimalDigits) : Char(DecimalDigits, i) = c

\* the value of a string of decimal digits
RECURSIVE DigitsValue(_)
DigitsValue(s) ==
    IF s = "" THEN 0
    ELSE 10 * DigitsValue(SubSeq(s, 1, Len(s) - 1))
           + (CHOOSE n \in 0..9 : Char(DecimalDigits, n + 1) = Char(s, Len(s)))

\* int(s): surrounding whitespace and one sign are accepted, then digits only
\* (the inputs hold no underscores); anything else is a ValueError
IntBody(s) == IF s # "" /\ Head(s) \in {"+", "-"} THEN Tail(s) ELSE s
IsInt(s) ==
    /\ IntBody(strip(s)) # ""
    /\ \A i \in 1..Len(IntBody(strip(s))) : isdigit(Char(IntBody(strip(s)), i))
int(s) ==
    IF Head(strip(s)) = "-" THEN 0 - DigitsValue(IntBody(strip(s)))
    ELSE DigitsValue(IntBody(strip(s)))

\* int(num_str[:-1]) * factor, or the ValueError of int
scaled(num_str, factor) ==
    IF IsInt(SubSeq(num_str, 1, Len(num_str) - 1))
    THEN [raised |-> "none", value |-> int(SubSeq(num_str, 1, Len(num_str) - 1)) * factor]
    ELSE [raised |-> "ValueError", value |-> 0]

\* _parse_size, on the upper-cased string
parse_upper(num_str) ==
    IF num_str = "" THEN [raised |-> "IndexError", value |-> 0]
    ELSE IF isdigit(Char(num_str, Len(num_str)))
         THEN (IF IsInt(num_str) THEN [raised |-> "none", value |-> int(num_str)]
               ELSE [raised |-> "ValueError", value |-> 0])
    ELSE IF Char(num_str, Len(num_str)) = "K" THEN scaled(num_str, 10^3)
    ELSE IF Char(num_str, Len(num_str)) = "M" THEN scaled(num_str, 10^6)
    ELSE IF Char(num_str, Len(num_str)) = "G" THEN scaled(num_str, 10^9)
    ELSE [raised |-> "ValueError", value |-> 0]

_parse_size(num_str) == parse_upper(upper(num_str))

\* the extra keys main starts from
default_extra_keys ==
    << "metadata.signature", "metadata.widgets", "cell.metadata.collapsed",
       "cell.metadata.ExecuteTime", "cell.metadata.execution",
       "cell.metadata.heading_collapsed", "cell.metadata.hidden", "cell.metadata.scrolled" >>

\* extra_keys as main builds it: the defaults, then git's, then the command line's
main_extra_keys(a, git) ==
    default_extra_keys
        \o (IF git = None THEN <<>> ELSE split(strip(git.v)))
        \o split(a.extra_keys)

\* the StripArgs main builds from the parsed command line
main_strip_args(a, git, max_size) ==
    StripArgs(a.keep_output, a.keep_count, main_extra_keys(a, git), a.drop_empty_cells,
              split(a.drop_tagged_cells), a.strip_init_cells, max_size)

\* what one call of process_file or process_stream leaves behind: the files, what it
\* wrote to stdout and stderr, the exception that came out of it ("none": it
\* returned), and whether it wrapped the buffer of sys.stdout in a stream of its own
Outcome(files, out, err, raised, wrapped) ==
    [disk |-> files, stdout |-> out, stderr |-> err, raised |-> raised, wrapped |-> wrapped]

\* the Zeppelin branch of process_file, once the file is open
process_file_zeppelin(filename, dry_run, files) ==
    IF dry_run
    THEN Outcome(files, <<>>, <<"Dry run: would have stripped " \o filename \o "\n">>,
                 "none", FALSE)
    ELSE IF files[filename] = Text
    THEN Outcome(files, <<>>, <<"Could not strip '" \o filename \o "'\n">>,
                 "JSONDecodeError", FALSE)
    ELSE IF ~(isinstance(files[filename].doc, "dict") /\ HasKey(files[filename].doc, "paragraphs"))
    THEN Outcome(files, <<>>, <<"Could not strip '" \o filename \o "'\n">>, "KeyError", FALSE)
    ELSE Outcome([files EXCEPT ![filename] = Json(strip_zeppelin_output(files[filename].doc))],
                 <<>>, <<>>, "none", FALSE)

\* a variant that has opened the file for writing before it strips: a failure
\* leaves the file empty
process_file_stripped_truncating(filename, dry_run, textconv, r, files, closed) ==
    IF r.raised
    THEN Outcome([files EXCEPT ![filename] = Text], <<>>,
                 r.stderr \o <<"Could not strip '" \o filename \o "'\n">>,
                 "MetadataError", FALSE)
    ELSE Outcome([files EXCEPT ![filename] = Json(r.nb)], <<>>, r.stderr, "none", FALSE)

\* process_file after nb = strip_output(nb, strip_args) gave r
process_file_stripped(filename, dry_run, textconv, r, files, closed) ==
    IF r.raised
    THEN Outcome(files, <<>>, r.stderr \o <<"Could not strip '" \o filename \o "'\n">>,
                 "MetadataError", FALSE)
    ELSE IF dry_run
    THEN Outcome(files, <<>>,
                 r.stderr \o <<"Dry run: would have stripped " \o filename \o "\n">>,
                 "none", FALSE)
    ELSE IF textconv /\ closed
    THEN Outcome(files, <<>>, r.stderr \o <<"Could not strip '" \o filename \o "'\n">>,
                 "ValueError", FALSE)
    ELSE IF textconv
    THEN Outcome(files, <<Json(r.nb)>>, r.stderr, "none", TRUE)
    ELSE Outcome([files EXCEPT ![filename] = Json(r.nb)], <<>>, r.stderr, "none", FALSE)

process_file(filename, mode, dry_run, textconv, strip_args, files, closed) ==
    IF files[filename] = Missing
    THEN Outcome(files, <<>>, <<"Could not strip '" \o filename \o "': file not found\n">>,
                 "SystemExit(1)", FALSE)
    ELSE IF mode = "zeppelin" \/ endswith(filename, ".zpln")
    THEN process_file_zeppelin(filename, dry_run, files)
    ELSE IF files[filename] = Text
    THEN Outcome(files, <<>>, <<"'" \o filename \o "' is not a valid notebook\n">>,
                 "SystemExit(1)", FALSE)
    ELSE process_file_stripped(filename, dry_run, textconv,
                               strip_output(files[filename].doc, strip_args), files, closed)

\* the Zeppelin branch of process_stream
process_stream_zeppelin(dry_run, input) ==
    IF dry_run
    THEN Outcome(<<>>, <<>>, <<"Dry run: would have stripped input from stdin\n">>,
                 "SystemExit(0)", TRUE)
    ELSE IF input = Text
    THEN Outcome(<<>>, <<>>, <<>>, "JSONDecodeError", TRUE)
    ELSE IF ~(isinstance(input.doc, "dict") /\ HasKey(input.doc, "paragraphs"))
    THEN Outcome(<<>>, <<>>, <<>>, "KeyError", TRUE)
    ELSE Outcome(<<>>, <<Json(strip_zeppelin_output(input.doc)), "\n">>, <<>>,
                 "SystemExit(0)", TRUE)

\* process_stream after nb = strip_output(nb, strip_args) gave r
process_stream_stripped(dry_run, r) ==
    IF r.raised THEN Outcome(<<>>, <<>>, r.stderr, "MetadataError", TRUE)
    ELSE IF dry_run
    THEN Outcome(<<>>, <<"Dry run: would have stripped input from stdin\n">>, r.stderr,
                 "none", TRUE)
    ELSE Outcome(<<>>, <<Json(r.nb)>>, r.stderr, "none", TRUE)

process_stream(force, mode, dry_run, textconv, strip_args, input) ==
    IF input = None THEN Outcome(<<>>, <<>>, <<>>, "ValueError", FALSE)
    ELSE IF mode = "zeppelin" THEN process_stream_zeppelin(dry_run, input)
    ELSE IF input = Text
    THEN Outcome(<<>>, <<>>, <<"No valid notebook detected\n">>, "SystemExit(1)", TRUE)
    ELSE process_stream_stripped(dry_run, strip_output(input.doc, strip_args))

\* the parameters of process_stream: all positional, none with a default
process_stream_parameters == <<"force", "mode", "dry_run", "textconv", "strip_args">>

\* a call of process_stream with the positional arguments actuals: Python binds
\* them to the parameters one to one and raises TypeError when they do not match
call_process_stream(actuals, input) ==
    IF Len(actuals) # Len(process_stream_parameters)
    THEN Outcome(<<>>, <<>>, <<>>, "TypeError", FALSE)
    ELSE process_stream(actuals[1], actuals[2], actuals[3], actuals[4], actuals[5], input)

\* how the interpreter ends when this comes out of main
exit_of(raised) ==
    IF raised = "SystemExit(0)" THEN "0"
    ELSE IF raised = "SystemExit(1)" THEN "1"
    ELSE raised

\* the command lines taken here ask for stripping: none of --install, --uninstall,
\* --is-installed, --status, --version, which leave main before any notebook is read
MaxFiles == 2       \* files on the command line of main

FileNames == {"a.ipynb", "b.zpln", "c.txt"}

MainNotebook ==
    Notebook4(D([kernelspec |-> EmptyDict, signature |-> S("s")]),
              << D([source |-> L(<<S("1+1")>>), outputs |-> L(<<OutExec>>),
                    execution_count |-> I(3), metadata |-> D([collapsed |-> B(TRUE)])]) >>)

ContradictingNotebook ==
    Notebook4(EmptyDict,
              << D([source |-> L(<<S("x")>>), outputs |-> L(<<OutOne>>),
                    metadata |-> D([keep_output |-> B(FALSE),
                                    tags |-> L(<<S("keep_output")>>)])]) >>)

ZeppelinNote ==
    D([paragraphs |-> L(<< D([text |-> S("p"), results |-> D([code |-> S("SUCCESS")])]),
                           D([text |-> S("q")]) >>)])

Disks ==
    { ("a.ipynb" :> a) @@ ("b.zpln" :> b) @@ ("c.txt" :> c) :
        a \in {Missing, Text, Json(MainNotebook), Json(ContradictingNotebook)},
        b \in {Text, Json(ZeppelinNote)},
        c \in {Text, Json(MainNotebook)} }

Argv(files, force, mode, dry_run, textconv, keep, keep_count, extra_keys, max_size) ==
    [files |-> files, force |-> force, mode |-> mode, dry_run |-> dry_run,
     textconv |-> textconv, keep_output |-> keep, keep_count |-> keep_count,
     extra_keys |-> extra_keys, drop_empty_cells |-> FALSE, drop_tagged_cells |-> "",
     strip_init_cells |-> FALSE, max_size |-> max_size]

\* main given files
InitMainFiles ==
    /\ argv \in { Argv(f, force, mode, dry_run, textconv, k, FALSE, "", "0") :
                    f \in ListsUpTo(FileNames, MaxFiles) \ {<<>>}, force \in BOOLEAN,
                    mode \in {"jupyter", "zeppelin"}, dry_run \in BOOLEAN,
                    textconv \in BOOLEAN, k \in {None, B(TRUE)} }
    /\ disk \in Disks
    /\ stdin = None
    /\ git_extrakeys = None

\* main given no file: the notebook comes on stdin
InitMainStream ==
    /\ argv \in { Argv(<<>>, FALSE, mode, dry_run, FALSE, k, kc, e, n) :
                    mode \in {"jupyter", "zeppelin"}, dry_run \in BOOLEAN,
                    k \in {None, B(TRUE)}, kc \in BOOLEAN,
                    e \in {"", "cell.metadata.foo  metadata.kernelspec"},
                    n \in {"0", "2", "1k", "5x", "K"} }
    /\ disk = <<>>
    /\ stdin \in {None, Text, Json(MainNotebook), Json(ContradictingNotebook),
                  Json(ZeppelinNote)}
    /\ git_extrakeys \in {None, S(""), S("metadata.language_info\n")}

InitMain ==
    /\ InitMainFiles \/ InitMainStream
    /\ nb = NoDoc
    /\ args = NoArgs
    /\ nb_in = NoDoc
    /\ first = NoDoc
    /\ calls = 0
    /\ keep_output = None
    /\ stderr = <<>>
    /\ call = NoCall
    /\ ret = NoRet
    /\ pc = "main"
    /\ stdout = <<>>
    /\ stdout_closed = FALSE
    /\ exit = "none"
    /\ file_index = 0

\* main up to the StripArgs: the size is parsed, the extra keys are collected
MainParse ==
    /\ pc = "main"
    /\ \E p \in {_parse_size(argv.max_size)} :
           IF p.raised # "none"
           THEN /\ pc' = "exited"
                /\ exit' = p.raised
                /\ args' = args
           ELSE /\ pc' = IF argv.files # <<>> THEN "files" ELSE "stream"
                /\ exit' = exit
                /\ args' = main_strip_args(argv, git_extrakeys, p.value)
    /\ UNCHANGED <<stderr, stripper_vars, helper_vars, argv, disk, stdin, stdout, stdout_closed,
                   git_extrakeys, file_index>>

\* one turn of the loop over args.files: a file that is neither forced nor named
\* .ipynb or .zpln is passed over
MainSkipFile ==
    /\ pc = "files"
    /\ file_index < Len(argv.files)
    /\ ~(argv.force \/ endswith(argv.files[file_index + 1], ".ipynb")
                    \/ endswith(argv.files[file_index + 1], ".zpln"))
    /\ file_index' = file_index + 1
    /\ UNCHANGED <<args, pc, stderr, stripper_vars, helper_vars, argv, disk, stdin, stdout,
                   stdout_closed, git_extrakeys, exit>>

\* one turn of the loop over args.files: process_file on the next file.  The stream
\* process_file wraps around the buffer of sys.stdout closes that buffer when it is
\* collected: at once under reference counting, later or never otherwise
MainProcessFile ==
    /\ pc = "files"
    /\ file_index < Len(argv.files)
    /\ argv.force \/ endswith(argv.files[file_index + 1], ".ipynb")
                  \/ endswith(argv.files[file_index + 1], ".zpln")
    /\ \E r \in {process_file(argv.files[file_index + 1], argv.mode, argv.dry_run,
                              argv.textconv, args, disk, stdout_closed)} :
           /\ disk' = r.disk
           /\ stdout' = stdout \o r.stdout
           /\ stderr' = stderr \o r.stderr
           /\ \E collected \in (IF r.wrapped THEN BOOLEAN ELSE {FALSE}) :
                  stdout_closed' = (stdout_closed \/ collected)
           /\ pc' = IF r.raised = "none" THEN pc ELSE "exited"
           /\ exit' = IF r.raised = "none" THEN exit ELSE exit_of(r.raised)
           /\ file_index' = IF r.raised = "none" THEN file_index + 1 ELSE file_index
    /\ UNCHANGED <<args, stripper_vars, helper_vars, argv, stdin, git_extrakeys>>

\* the loop over args.files is over: main returns
MainReturn ==
    /\ pc = "files"
    /\ file_index = Len(argv.files)
    /\ pc' = "exited"
    /\ exit' = "0"
    /\ UNCHANGED <<args, stderr, stripper_vars, helper_vars, argv, disk, stdin, stdout,
                   stdout_closed, git_extrakeys, file_index>>

\* no file was given: main calls process_stream(strip_args)
MainStream ==
    /\ pc = "stream"
    /\ \E r \in {call_process_stream(<<args>>, stdin)} :
           /\ stdout' = stdout \o r.stdout
           /\ stderr' = stderr \o r.stderr
           /\ exit' = IF r.raised = "none" THEN "0" ELSE exit_of(r.raised)
    /\ pc' = "exited"
    /\ UNCHANGED <<args, stripper_vars, helper_vars, argv, disk, stdin, stdout_closed,
                   git_extrakeys, file_index>>

NextMain == MainParse \/ MainSkipFile \/ MainProcessFile \/ MainReturn \/ MainStream

SpecMain == InitMain /\ [][NextMain]_vars

-----------------------------------------------------------------------------
(* What the properties below speak of *)

Done == pc \in {"returned", "raised"}

RECURSIVE Concat(_)
Concat(qs) == IF qs = <<>> THEN <<>> ELSE Head(qs) \o Concat(Tail(qs))

\* the lists of cells of a document: one per worksheet, or the notebook's own
CellLists(doc) ==
    IF Item(doc, "nbformat").v < 4
    THEN [k \in 1..Len(Item(doc, "worksheets").v) |->
            Item(Item(doc, "worksheets").v[k], "cells").v]
    ELSE <<Item(doc, "cells").v>>

\* all cells of a document, in order
CellsOf(doc) == Concat(CellLists(doc))

\* the cells of a document that pass the code's cell filtering, in order
Surviving(doc, a) ==
    Concat([k \in 1..Len(CellLists(doc)) |-> filter_cells(CellLists(doc)[k], conditionals(a), a)])

Ids(cells) == [j \in 1..Len(cells) |-> Get(cells[j], "id", None)]

HasKeepTag(cell) ==
    /\ HasKey(cell, "metadata")
    /\ InList(S("keep_output"), Get(Item(cell, "metadata"), "tags", EmptyList))

\* the decision strip_output takes for a cell of the document it was given
Decision(cell) == determine_keep_output(cell, keep_output, args.strip_init_cells)

\* the size of a value as the specification words it
RECURSIVE RefSize(_)
RECURSIVE RefSizeOfAll(_, _)
RefSizeOfAll(f, keys) ==
    IF keys = {} THEN 0
    ELSE LET k == CHOOSE x \in keys : TRUE
         IN  RefSize(f[k]) + RefSizeOfAll(f, keys \ {k})

RefSize(x) ==
    CASE x.t = "str" -> Len(x.v)
      [] x.t \in {"list", "dict"} -> RefSizeOfAll(x.v, DOMAIN x.v)
      [] x.t = "null" -> Len("None")
      [] x.t = "bool" -> IF x.v THEN Len("True") ELSE Len("False")
      [] x.t = "int" -> Cardinality({ e \in 0..6 : x.v >= 10 ^ e }) + (IF x.v <= 0 THEN 1 ELSE 0)

\* two outputs that differ at most in the value of execution_count
SameButCount(x, y) ==
    /\ DOMAIN x.v = DOMAIN y.v
    /\ \A k \in DOMAIN x.v \ {"execution_count"} : x.v[k] = y.v[k]

\* q is p with some elements left out
RECURSIVE IsSubseq(_, _)
IsSubseq(q, p) ==
    IF q = <<>> THEN TRUE
    ELSE IF p = <<>> THEN FALSE
    ELSE IF Head(q) = Head(p) THEN IsSubseq(Tail(q), Tail(p)) \/ IsSubseq(q, Tail(p))
    ELSE IsSubseq(q, Tail(p))

-----------------------------------------------------------------------------
(* C1: strip_output is idempotent: whenever strip_output(D, C) succeeds,     *)
(* strip_output(strip_output(D, C), C) succeeds and equals strip_output(D, C) *)
C1_Idempotent ==
    (Done /\ calls = 2) => (pc = "returned" /\ nb = nb_in)

(* C2: with drop_tagged_cells non-empty, exactly the cells carrying none of  *)
(* the listed tags (and passing the empty-source filter when that is on) are *)
(* left, in their original order, in the notebook or in each worksheet       *)
C2_CarriesNoListedTag(cell, a) ==
    \A i \in 1..Len(a.drop_tagged_cells) : lacks_tag(cell, a.drop_tagged_cells[i])

C2_DropsEveryListedTag ==
    (pc = "returned" /\ calls = 1 /\ args.drop_tagged_cells # <<>>) =>
        /\ Len(CellLists(nb)) = Len(CellLists(nb_in))
        /\ \A k \in 1..Len(CellLists(nb_in)) :
             Ids(CellLists(nb)[k]) =
                Ids(SelectSeq(CellLists(nb_in)[k],
                              LAMBDA c : /\ C2_CarriesNoListedTag(c, args)
                                         /\ (args.drop_empty_cells => has_source(c))))

(* C3, as claimed: MetadataError is raised exactly when a cell that survives *)
(* cell filtering has metadata.keep_output equal to false (read as: present  *)
(* with a value Python takes for false) and the tag "keep_output"            *)
C3_KeepOutputIsFalse(cell) ==
    /\ HasKeepTag(cell)
    /\ HasKey(Item(cell, "metadata"), "keep_output")
    /\ ~bool(Item(Item(cell, "metadata"), "keep_output"))

C3_RaisesOnFalseWithTag ==
    Done => (pc = "raised" <=>
                \E j \in 1..Len(Surviving(nb_in, args)) :
                    C3_KeepOutputIsFalse(Surviving(nb_in, args)[j]))

(* C3, amended: MetadataError is raised exactly when a cell that survives    *)
(* the code's cell filtering has no metadata.init_cell, has a                *)
(* metadata.keep_output that is present and false or null, and has the tag   *)
(* "keep_output"                                                             *)
C3_Contradicts(cell) ==
    /\ HasKeepTag(cell)
    /\ ~HasKey(Item(cell, "metadata"), "init_cell")
    /\ HasKey(Item(cell, "metadata"), "keep_output")
    /\ Item(Item(cell, "metadata"), "keep_output") \in {B(FALSE), None}

C3_RaisesOnContradiction ==
    Done => (pc = "raised" <=>
                \E j \in 1..Len(Surviving(nb_in, args)) : C3_Contradicts(Surviving(nb_in, args)[j]))

\* the error is raised for a cell that comes after a cell the filters dropped
C3_Witness ==
    /\ pc = "raised"
    /\ Len(Surviving(nb_in, args)) < Len(CellsOf(nb_in))
    /\ \E j \in 1..Len(Surviving(nb_in, args)) : C3_Contradicts(Surviving(nb_in, args)[j])

(* C4: a surviving cell that has outputs and is not kept is left with exactly *)
(* the original outputs of size <= max_size, in order; a cell that is kept    *)
(* loses no output (the counters inside the outputs aside)                    *)
C4_Expected(cell) ==
    IF bool(Decision(cell).value)
    THEN Item(cell, "outputs").v
    ELSE SelectSeq(Item(cell, "outputs").v, LAMBDA o : RefSize(o) <= args.max_size)

C4_OutputsAsExpected(before, after) ==
    (HasKey(before, "outputs") /\ HasKey(after, "outputs")) =>
        /\ Len(Item(after, "outputs").v) = Len(C4_Expected(before))
        /\ \A k \in 1..Len(C4_Expected(before)) :
             SameButCount(Item(after, "outputs").v[k], C4_Expected(before)[k])

C5_NothingSurvivesAtZero ==
    (pc = "returned" /\ args.max_size = 0) =>
        \A j \in 1..Len(CellsOf(nb)) :
            (/\ HasKey(CellsOf(nb)[j], "outputs")
             /\ ~bool(Decision(Surviving(nb_in, args)[j]).value))
                => Item(CellsOf(nb)[j], "outputs").v = <<>>

(* C7: with keep_count false every execution_count of a remaining output and *)
(* the prompt_number / execution_count of every surviving cell are null where *)
(* present and are not created; with keep_count true they all keep their      *)
(* original values                                                            *)
C7_Counters == {"prompt_number", "execution_count"}

C7_Nulled(before, after) ==
    /\ \A key \in C7_Counters :
         HasKey(after, key) => (HasKey(before, key) /\ Item(after, key) = None)
    /\ HasKey(after, "outputs") =>
         \A k \in 1..Len(Item(after, "outputs").v) :
            HasKey(Item(after, "outputs").v[k], "execution_count")
                => Item(Item(after, "outputs").v[k], "execution_count") = None

C7_Preserved(before, after) ==
    /\ \A key \in C7_Counters :
         HasKey(after, key) => (HasKey(before, key) /\ Item(after, key) = Item(before, key))
    /\ HasKey(after, "outputs") =>
         /\ HasKey(before, "outputs")
         /\ IsSubseq(Item(after, "outputs").v, Item(before, "outputs").v)

C7_CounterHandling ==
    pc = "returned" =>
        /\ Len(CellsOf(nb)) = Len(Surviving(nb_in, args))
        /\ \A j \in 1..Len(CellsOf(nb)) :
             IF args.keep_count
             THEN C7_Preserved(Surviving(nb_in, args)[j], CellsOf(nb)[j])
             ELSE C7_Nulled(Surviving(nb_in, args)[j], CellsOf(nb)[j])

\* keep_count false: a cell whose prompt_number was 7 and which keeps an output
\* whose execution_count was 3 has both set to null
C7_Witness ==
    /\ pc = "returned"
    /\ calls = 1
    /\ ~args.keep_count
    /\ \E j \in 1..Len(CellsOf(nb)) :
         /\ Get(CellsOf(nb_in)[j], "prompt_number", None) = I(7)
         /\ Get(CellsOf(nb)[j], "prompt_number", I(0)) = None
         /\ \E k \in 1..Len(Item(CellsOf(nb)[j], "outputs").v) :
              /\ Get(Item(CellsOf(nb)[j], "outputs").v[k], "execution_count", I(0)) = None
              /\ SameButCount(Item(CellsOf(nb)[j], "outputs").v[k], OutExec)

(* C9: the default keep_output of every cell is the notebook's own            *)
(* metadata.keep_output exactly when the configured keep_output is unset and  *)
(* the notebook metadata has that key, and the configured value otherwise; it *)
(* is read from the metadata as they were before any extra key was removed    *)
C9_Expected ==
    IF args.keep_output = None /\ HasKey(Item(nb_in, "metadata"), "keep_output")
    THEN B(bool(Item(Item(nb_in, "metadata"), "keep_output")))
    ELSE args.keep_output

C9_EffectiveKeepOutput ==
    Done =>
        /\ keep_output = C9_Expected
        /\ pc = "returned" =>
             \A j \in 1..Len(CellsOf(nb)) :
                (/\ ~HasKey(Surviving(nb_in, args)[j], "metadata")
                 /\ HasKey(Surviving(nb_in, args)[j], "outputs")
                 /\ HasKey(CellsOf(nb)[j], "outputs")
                 /\ bool(C9_Expected))
                    => Len(Item(CellsOf(nb)[j], "outputs").v)
                         = Len(Item(Surviving(nb_in, args)[j], "outputs").v)

\* the notebook's keep_output: true decides although the extra keys remove it
C9_Witness ==
    /\ pc = "returned"
    /\ calls = 1
    /\ args.keep_output = None
    /\ Get(Item(nb_in, "metadata"), "keep_output", None) = B(TRUE)
    /\ ~HasKey(Item(nb, "metadata"), "keep_output")
    /\ keep_output = B(TRUE)

(* C6: determine_keep_output follows the priority table: no metadata ->      *)
(* default; init_cell present -> bool(init_cell) and not strip_init_cells,   *)
(* whatever keep_output, the tags and the default say; else keep_output key  *)
(* or tag present -> value or tag, the contradiction aside; else default     *)
C6_Table(cell, default, strip_init_cells) ==
    CASE ~HasKey(cell, "metadata") -> default
      [] HasKey(cell, "metadata") /\ HasKey(Item(cell, "metadata"), "init_cell") ->
            B(Item(Item(cell, "metadata"), "init_cell") = B(TRUE) /\ ~strip_init_cells)
      [] /\ HasKey(cell, "metadata")
         /\ ~HasKey(Item(cell, "metadata"), "init_cell")
         /\ (HasKey(Item(cell, "metadata"), "keep_output") \/ HasKeepTag(cell)) ->
            B(Get(Item(cell, "metadata"), "keep_output", None) = B(TRUE) \/ HasKeepTag(cell))
      [] OTHER -> default

C6_PriorityTable ==
    ret.fn = "determine_keep_output" =>
        IF C3_Contradicts(call.cell)
        THEN ret.raised
        ELSE /\ ~ret.raised
             /\ ret.value = C6_Table(call.cell, call.default, call.strip_init_cells)

\* init_cell: true wins over keep_output: false, the tag and a default of false
C6_Witness ==
    /\ ret.fn = "determine_keep_output"
    /\ Get(call.cell, "metadata", None) =
          D([init_cell |-> B(TRUE), keep_output |-> B(FALSE),
             tags |-> L(<<S("keep_output")>>)])
    /\ ~call.strip_init_cells
    /\ call.default = B(FALSE)
    /\ ret.value = B(TRUE)

(* C8: pop_recursive removes and returns the entry whose key is the whole    *)
(* remaining path before it tries the head segment; otherwise it splits on   *)
(* the first dot and goes into the value at the head; if the head is absent, *)
(* its value is no mapping, or the path has no dot and is no key, it returns *)
(* default and changes nothing; on success exactly one entry goes            *)

\* the literal keys that lead to the entry the path names, <<>> if it names none
RECURSIVE C8_Location(_, _)
C8_Location(d, key) ==
    IF d.t # "dict" THEN <<>>
    ELSE IF key \in DOMAIN d.v THEN <<key>>
    ELSE IF ~HasDot(key) THEN <<>>
    ELSE IF SplitFirst(key)[1] \notin DOMAIN d.v THEN <<>>
    ELSE LET below == C8_Location(d.v[SplitFirst(key)[1]], SplitFirst(key)[2])
         IN  IF below = <<>> THEN <<>> ELSE <<SplitFirst(key)[1]>> \o below

RECURSIVE C8_ValueAt(_, _)
C8_ValueAt(d, loc) == IF Len(loc) = 1 THEN d.v[loc[1]] ELSE C8_ValueAt(d.v[loc[1]], Tail(loc))

\* d with the entry at loc taken out and everything else as it was
RECURSIVE C8_Without(_, _)
C8_Without(d, loc) ==
    D([k \in (IF Len(loc) = 1 THEN DOMAIN d.v \ {loc[1]} ELSE DOMAIN d.v) |->
         IF k = loc[1] THEN C8_Without(d.v[k], Tail(loc)) ELSE d.v[k]])

C8_PopRecursive ==
    ret.fn = "pop_recursive" =>
        /\ (call.d.t = "dict" /\ call.key \in DOMAIN call.d.v) =>
              /\ ret.ret = call.d.v[call.key]
              /\ ret.d = D([k \in DOMAIN call.d.v \ {call.key} |-> call.d.v[k]])
        /\ (/\ call.d.t = "dict"
            /\ call.key \notin DOMAIN call.d.v
            /\ \/ ~HasDot(call.key)
               \/ SplitFirst(call.key)[1] \notin DOMAIN call.d.v
               \/ call.d.v[SplitFirst(call.key)[1]].t # "dict") =>
              (ret.ret = call.default /\ ret.d = call.d)
        /\ IF C8_Location(call.d, call.key) = <<>>
           THEN ret.ret = call.default /\ ret.d = call.d
           ELSE /\ ret.ret = C8_ValueAt(call.d, C8_Location(call.d, call.key))
                /\ ret.d = C8_Without(call.d, C8_Location(call.d, call.key))

\* {"a.b": 1, "a": {"b": 2}} and "a.b": 1 is returned and {"a": {"b": 2}} is left
C8_Witness ==
    /\ ret.fn = "pop_recursive"
    /\ call.d = D(Entry("a.b", I(1)) @@ Entry("a", D([b |-> I(2)])))
    /\ call.key = "a.b"
    /\ ret.ret = I(1)
    /\ ret.d = D([a |-> D([b |-> I(2)])])

-----------------------------------------------------------------------------
(* C10 *)

\* stdin holds a document of the kind the mode reads, and one that strips
C10_ValidInput ==
    /\ stdin \notin {None, Text}
    /\ IF argv.mode = "zeppelin" THEN HasKey(stdin.doc, "paragraphs")
       ELSE HasKey(stdin.doc, "nbformat") /\ ~strip_output(stdin.doc, args).raised

C10_Stripped ==
    IF argv.mode = "zeppelin" THEN strip_zeppelin_output(stdin.doc)
    ELSE strip_output(stdin.doc, args).nb

\* C10: when main is given no file and a valid notebook on stdin, it ends without an
\* error and what it wrote to stdout is that notebook stripped with the configured
\* StripArgs, by strip_output or strip_zeppelin_output according to the mode
C10_ContentFilter ==
    (/\ pc = "exited"
     /\ args # NoArgs
     /\ argv.files = <<>>
     /\ ~argv.dry_run
     /\ C10_ValidInput) =>
        /\ exit = "0"
        /\ stdout # <<>>
        /\ stdout[1] = Json(C10_Stripped)

-----------------------------------------------------------------------------
(* C11 *)

\* the tails of the dotted paths of a set that begin with head
C11_Tails(paths, head) ==
    { SplitFirst(p)[2] : p \in { q \in paths : HasDot(q) /\ SplitFirst(q)[1] = head } }

\* x is the mapping y with nothing but entries named by the paths taken out
RECURSIVE C11_Pruned(_, _, _)
C11_Pruned(x, y, paths) ==
    \/ x = y
    \/ /\ x.t = "dict" /\ y.t = "dict"
       /\ DOMAIN x.v \subseteq DOMAIN y.v
       /\ \A k \in DOMAIN y.v \ DOMAIN x.v : k \in paths
       /\ \A k \in DOMAIN x.v : C11_Pruned(x.v[k], y.v[k], C11_Tails(paths, k))

\* output x is output y, but for an execution_count that became null
C11_OutputOf(x, y) ==
    \/ x = y
    \/ /\ ~args.keep_count
       /\ HasKey(y, "execution_count")
       /\ x = SetKey(y, "execution_count", None)

\* the outputs q are outputs of p, in the order of p
RECURSIVE C11_OutputsOf(_, _)
C11_OutputsOf(q, p) ==
    IF q = <<>> THEN TRUE
    ELSE IF p = <<>> THEN FALSE
    ELSE \/ C11_OutputOf(Head(q), Head(p)) /\ C11_OutputsOf(Tail(q), Tail(p))
         \/ C11_OutputsOf(q, Tail(p))

\* cell x is cell y: no new key, the missing keys named by the cell paths, and each
\* remaining field unchanged, a counter now null, fewer outputs, or pruned by the paths
C11_CellOf(x, y, paths) ==
    /\ DOMAIN x.v \subseteq DOMAIN y.v
    /\ \A k \in DOMAIN y.v \ DOMAIN x.v : k \in paths
    /\ \A k \in DOMAIN x.v :
         \/ x.v[k] = y.v[k]
         \/ k \in {"execution_count", "prompt_number"} /\ ~args.keep_count /\ x.v[k] = None
         \/ /\ k = "outputs"
            /\ x.v[k].t = "list" /\ y.v[k].t = "list"
            /\ C11_OutputsOf(x.v[k].v, y.v[k].v)
         \/ C11_Pruned(x.v[k], y.v[k], C11_Tails(paths, k))

\* the cells q are cells of p, in the order of p
RECURSIVE C11_CellsOf(_, _, _)
C11_CellsOf(q, p, paths) ==
    IF q = <<>> THEN TRUE
    ELSE IF p = <<>> THEN FALSE
    ELSE \/ C11_CellOf(Head(q), Head(p), paths) /\ C11_CellsOf(Tail(q), Tail(p), paths)
         \/ C11_CellsOf(q, Tail(p), paths)

\* the keys that hold the cells, or lead to them
C11_CellKeys == {"cells", "worksheets"}

C11_ExtraKeys == { args.extra_keys[i] : i \in 1..Len(args.extra_keys) }

\* C11: stripping only removes.  After strip_output the cells of the notebook (of
\* each worksheet below nbformat 4) are cells of the original in their order, the
\* outputs of each are outputs of the original cell in their order, no key is
\* added to the document, a cell or an output, the only values that change are
\* counters set to null, and what the extra keys do not name is unchanged
C11_OnlyRemoves ==
    pc = "returned" =>
        /\ DOMAIN nb.v = DOMAIN nb_in.v
        /\ \A k \in DOMAIN nb.v \ (C11_CellKeys \cup {"metadata"}) : nb.v[k] = nb_in.v[k]
        /\ C11_Pruned(Item(nb, "metadata"), Item(nb_in, "metadata"),
                      C11_Tails(C11_ExtraKeys, "metadata"))
        /\ Len(CellLists(nb)) = Len(CellLists(nb_in))
        /\ \A k \in 1..Len(CellLists(nb_in)) :
             C11_CellsOf(CellLists(nb)[k], CellLists(nb_in)[k], C11_Tails(C11_ExtraKeys, "cell"))
        /\ Item(nb_in, "nbformat").v < 4 =>
             \A k \in 1..Len(Item(nb_in, "worksheets").v) :
                DelKey(Item(nb, "worksheets").v[k], "cells")
                    = DelKey(Item(nb_in, "worksheets").v[k], "cells")

\* a cell went, another lost its outputs and a third its counter
C11_Witness ==
    /\ pc = "returned"
    /\ calls = 1
    /\ Len(CellsOf(nb)) < Len(CellsOf(nb_in))
    /\ \E i \in 1..Len(CellsOf(nb)) : \E j \in 1..Len(CellsOf(nb_in)) :
          /\ Get(CellsOf(nb)[i], "id", None) = Get(CellsOf(nb_in)[j], "id", None)
          /\ Get(CellsOf(nb)[i], "outputs", None) = EmptyList
          /\ Get(CellsOf(nb_in)[j], "outputs", None) # EmptyList
    /\ \E i \in 1..Len(CellsOf(nb)) : \E j \in 1..Len(CellsOf(nb_in)) :
          /\ Get(CellsOf(nb)[i], "id", None) = Get(CellsOf(nb_in)[j], "id", None)
          /\ Get(CellsOf(nb)[i], "execution_count", I(0)) = None
          /\ Get(CellsOf(nb_in)[j], "execution_count", I(0)) # None

-----------------------------------------------------------------------------
(* C12 *)

\* the source lines of a cell (a source that is one string is its only line)
C12_Lines(cell) ==
    IF ~HasKey(cell, "source") THEN <<>>
    ELSE IF Item(cell, "source").t = "str" THEN <<Item(cell, "source").v>>
    ELSE [i \in 1..Len(Item(cell, "source").v) |-> Item(cell, "source").v[i].v]

\* some source line of the cell contains a character that is not whitespace
C12_HasText(cell) ==
    \E n \in 1..Len(C12_Lines(cell)) :
        \E i \in 1..Len(C12_Lines(cell)[n]) : Char(C12_Lines(cell)[n], i) \notin Whitespace

\* the cells the empty-cell filter lets through
C12_Kept(cells) == SelectSeq(cells, LAMBDA c : args.drop_empty_cells => C12_HasText(c))

\* C12: with drop_empty_cells a cell survives strip_output exactly when one of its
\* source lines contains a non-whitespace character, the survivors keep their
\* order, and below nbformat 4 each worksheet is filtered on its own; without
\* drop_empty_cells no cell goes for a blank source (cells can only go for a tag)
C12_DropEmptyCells ==
    pc = "returned" =>
        /\ Len(CellLists(nb)) = Len(CellLists(nb_in))
        /\ \A k \in 1..Len(CellLists(nb_in)) :
             /\ args.drop_tagged_cells = <<>> =>
                   Ids(CellLists(nb)[k]) = Ids(C12_Kept(CellLists(nb_in)[k]))
             /\ IsSubseq(Ids(CellLists(nb)[k]), Ids(C12_Kept(CellLists(nb_in)[k])))
             /\ IsSubseq(Ids(SelectSeq(C12_Kept(CellLists(nb_in)[k]),
                                       LAMBDA c : C2_CarriesNoListedTag(c, args))),
                         Ids(CellLists(nb)[k]))

\* two worksheets: the cell with source ["   \n", ""] went from the first, the
\* cell with source ["x"] stayed in the second
C12_Witness ==
    /\ pc = "returned"
    /\ args.drop_empty_cells
    /\ Item(nb_in, "nbformat").v < 4
    /\ \E j \in 1..Len(CellLists(nb_in)[1]) :
          Get(CellLists(nb_in)[1][j], "source", None) = L(<<S("   \n"), S("")>>)
    /\ \A j \in 1..Len(CellLists(nb)[1]) : C12_HasText(CellLists(nb)[1][j])
    /\ \E j \in 1..Len(CellLists(nb)[2]) :
          Get(CellLists(nb)[2][j], "source", None) = L(<<S("x")>>)

-----------------------------------------------------------------------------
(* C13 *)

\* an entry with no dot, or whose root segment is neither metadata nor cell
C13_Invalid(key) ==
    \/ \A i \in 1..Len(key) : Char(key, i) # "."
    \/ SplitFirst(key)[1] \notin {"metadata", "cell"}

C13_InvalidAt == { i \in 1..Len(args.extra_keys) : C13_Invalid(args.extra_keys[i]) }

\* the configuration without entry i of extra_keys
C13_ArgsWithout(i) ==
    [args EXCEPT !.extra_keys = SubSeq(@, 1, i - 1) \o SubSeq(@, i + 1, Len(@))]

\* the valid entries under a root segment, without that segment
C13_ValidUnder(root) ==
    { SplitFirst(args.extra_keys[i])[2] :
        i \in { j \in 1..Len(args.extra_keys) \ C13_InvalidAt :
                  SplitFirst(args.extra_keys[j])[1] = root } }

\* C13: an invalid extra_keys entry is not fatal and is dropped from processing.
\* The call ends as it ends without the entry and leaves the same document, it
\* returns when the call without the entry returns, it writes one warning per
\* invalid entry, and after it no valid metadata.* path names an entry of the
\* notebook's metadata and no valid cell.* path names an entry of a surviving cell
C13_InvalidKeysDropped ==
    (Done /\ calls = 1) =>
        /\ \A i \in C13_InvalidAt :
             /\ strip_output(nb_in, C13_ArgsWithout(i)).nb = nb
             /\ strip_output(nb_in, C13_ArgsWithout(i)).raised = (pc = "raised")
        /\ Len(stderr) = Cardinality(C13_InvalidAt)
        /\ \A i \in C13_InvalidAt :
             \E n \in 1..Len(stderr) : endswith(stderr[n], args.extra_keys[i] \o "\n")
        /\ pc = "returned" =>
             /\ \A p \in C13_ValidUnder("metadata") : C8_Location(Item(nb, "metadata"), p) = <<>>
             /\ \A p \in C13_ValidUnder("cell") :
                  \A j \in 1..Len(CellsOf(nb)) : C8_Location(CellsOf(nb)[j], p) = <<>>

\* one invalid entry between two valid ones: a warning for it, both others applied
C13_Witness ==
    /\ pc = "returned"
    /\ calls = 1
    /\ args.extra_keys = <<"metadata.keep_output", "nb.metadata", "cell.metadata.tags">>
    /\ HasKey(Item(nb_in, "metadata"), "keep_output")
    /\ ~HasKey(Item(nb, "metadata"), "keep_output")
    /\ HasKey(Item(CellsOf(nb_in)[1], "metadata"), "tags")
    /\ ~HasKey(Item(CellsOf(nb)[1], "metadata"), "tags")
    /\ Len(stderr) = 1

-----------------------------------------------------------------------------
(* C14 *)

C14_Before == Item(call.nb, "paragraphs").v
C14_After == Item(ret.nb, "paragraphs").v

\* C14: on a note with a paragraphs sequence of mappings strip_zeppelin_output
\* succeeds and returns the document it was given; every paragraph that had a
\* results field has an empty mapping there, no paragraph gained one, and the
\* number and order of the paragraphs and every other field are as before
C14_ZeppelinResults ==
    (ret.fn = "strip_zeppelin_output" /\ HasKey(call.nb, "paragraphs")) =>
        /\ ret.raised = "none"
        /\ ret.ret = ret.nb
        /\ DelKey(ret.nb, "paragraphs") = DelKey(call.nb, "paragraphs")
        /\ HasKey(ret.nb, "paragraphs")
        /\ Len(C14_After) = Len(C14_Before)
        /\ \A i \in 1..Len(C14_Before) :
             /\ DOMAIN C14_After[i].v = DOMAIN C14_Before[i].v
             /\ HasKey(C14_Before[i], "results") => Item(C14_After[i], "results") = EmptyDict
             /\ \A k \in DOMAIN C14_Before[i].v \ {"results"} :
                  C14_After[i].v[k] = C14_Before[i].v[k]

\* a paragraph with results between two without: only the middle one changed
C14_Witness ==
    /\ ret.fn = "strip_zeppelin_output"
    /\ ret.raised = "none"
    /\ Len(C14_Before) = 3
    /\ ~HasKey(C14_Before[1], "results") /\ C14_After[1] = C14_Before[1]
    /\ Get(C14_Before[2], "results", None) \notin {None, EmptyDict}
    /\ Get(C14_After[2], "results", None) = EmptyDict
    /\ ~HasKey(C14_After[3], "results")

-----------------------------------------------------------------------------
(* C15 *)

\* the file the loop of main stands at
C15_File == argv.files[file_index + 1]

\* the loop does not pass over that file
C15_Taken ==
    argv.force \/ endswith(C15_File, ".ipynb") \/ endswith(C15_File, ".zpln")

\* that file's content, stripped
C15_Stripped ==
    IF argv.mode = "zeppelin" \/ endswith(C15_File, ".zpln")
    THEN Json(strip_zeppelin_output(disk[C15_File].doc))
    ELSE Json(strip_output(disk[C15_File].doc, args).nb)

\* one turn of the loop
C15_Turn ==
    /\ \A g \in DOMAIN disk : g # C15_File => disk'[g] = disk[g]
    /\ pc' = "exited" =>
          /\ exit' \notin {"none", "0"}
          /\ disk' = disk
          /\ file_index' = file_index
    /\ (pc' = "files" /\ C15_Taken /\ ~argv.dry_run /\ ~argv.textconv) =>
          disk'[C15_File] = C15_Stripped

====
